---- MODULE Spec2Model ----
(***************************************************************************)
(* Model of the authenticating reverse proxy of src/devtools_proxy.py:     *)
(* AuthProxyHandler (authenticate, send_auth_required, proxy_request) and  *)
(* the sequential TCPServer of main().                                     *)
(*                                                                         *)
(* Text that the code inspects character by character (the Authorization   *)
(* value, the secret, bodies) is a sequence of character codes.  Header    *)
(* names are strings; lower() and capitalize() are tables over the names   *)
(* that occur.                                                             *)
(***************************************************************************)
EXTENDS Integers, Sequences, FiniteSets, TLC

(***************************************************************************)
(* Literals of the source, as character codes.                             *)
(***************************************************************************)
\* 'Basic ' (devtools_proxy.py:60)
BasicPrefix == <<66, 97, 115, 105, 99, 32>>
\* ':' (devtools_proxy.py:66)
Colon == 58
\* ' ' (devtools_proxy.py:64)
Space == 32
\* 'token' (devtools_proxy.py:69)
TokenUser == <<116, 111, 107, 101, 110>>
\* '=' the base64 pad character
Pad == 61

(***************************************************************************)
(* Sequence helpers.                                                       *)
(***************************************************************************)
\* s[from..] for a sequence s
Drop(s, n) == SubSeq(s, n + 1, Len(s))

\* str.startswith
StartsWith(s, p) == Len(s) >= Len(p) /\ SubSeq(s, 1, Len(p)) = p

\* index of the first occurrence of c in s, 0 when there is none
RECURSIVE FindFrom(_, _, _)
FindFrom(s, c, i) ==
    IF i > Len(s) THEN 0
    ELSE IF s[i] = c THEN i
    ELSE FindFrom(s, c, i + 1)

Find(s, c) == FindFrom(s, c, 1)

(***************************************************************************)
(* base64.b64decode(encoded) with its default validate=False, as           *)
(* binascii.a2b_base64 computes it: characters outside the alphabet are    *)
(* skipped, a complete pad sequence ends the input, and a trailing         *)
(* incomplete quad raises.                                                 *)
(***************************************************************************)
\* the value of a base64 alphabet character, 64 for any other character
table_a2b_base64(c) ==
    IF c >= 65 /\ c <= 90 THEN c - 65
    ELSE IF c >= 97 /\ c <= 122 THEN c - 71
    ELSE IF c >= 48 /\ c <= 57 THEN c + 4
    ELSE IF c = 43 THEN 62
    ELSE IF c = 47 THEN 63
    ELSE 64

Raised == [ok |-> FALSE, val |-> <<>>]

Returned(v) == [ok |-> TRUE, val |-> v]

RECURSIVE a2b_base64(_, _, _, _, _, _)
a2b_base64(s, i, quad_pos, leftchar, pads, out) ==
    IF i > Len(s)
    THEN IF quad_pos # 0 THEN Raised ELSE Returned(out)
    ELSE IF s[i] = Pad
    THEN IF quad_pos >= 2 /\ quad_pos + pads + 1 >= 4
         THEN Returned(out)
         ELSE a2b_base64(s, i + 1, quad_pos, leftchar,
                         IF quad_pos >= 2 THEN pads + 1 ELSE pads, out)
    ELSE LET v == table_a2b_base64(s[i]) IN
         IF v >= 64
         THEN a2b_base64(s, i + 1, quad_pos, leftchar, pads, out)
         ELSE CASE quad_pos = 0 ->
                     a2b_base64(s, i + 1, 1, v, 0, out)
                [] quad_pos = 1 ->
                     a2b_base64(s, i + 1, 2, v % 16, 0,
                                Append(out, leftchar * 4 + (v \div 16)))
                [] quad_pos = 2 ->
                     a2b_base64(s, i + 1, 3, v % 4, 0,
                                Append(out, leftchar * 16 + (v \div 4)))
                [] OTHER ->
                     a2b_base64(s, i + 1, 0, 0, 0,
                                Append(out, leftchar * 64 + v))

\* b64decode of a str: a non-ASCII character raises ValueError
b64decode(s) ==
    IF \E i \in 1..Len(s) : s[i] > 127
    THEN Raised
    ELSE a2b_base64(s, 1, 0, 0, 0, <<>>)

(***************************************************************************)
(* bytes.decode('utf-8'): raises on an ill-formed sequence.  The decoded   *)
(* text is kept as its (well-formed) UTF-8 bytes, which determine it; ':'  *)
(* never occurs inside a multi-byte sequence.                              *)
(***************************************************************************)
IsCont(b) == b >= 128 /\ b <= 191

RECURSIVE Utf8WellFormed(_, _)
Utf8WellFormed(b, i) ==
    IF i > Len(b) THEN TRUE
    ELSE LET c == b[i]
             n == Len(b) - i
         IN
         IF c < 128 THEN Utf8WellFormed(b, i + 1)
         ELSE IF c >= 194 /\ c <= 223
         THEN n >= 1 /\ IsCont(b[i + 1]) /\ Utf8WellFormed(b, i + 2)
         ELSE IF c >= 224 /\ c <= 239
         THEN /\ n >= 2
              /\ IsCont(b[i + 1])
              /\ IsCont(b[i + 2])
              /\ (c = 224 => b[i + 1] >= 160)
              /\ (c = 237 => b[i + 1] <= 159)
              /\ Utf8WellFormed(b, i + 3)
         ELSE IF c >= 240 /\ c <= 244
         THEN /\ n >= 3
              /\ IsCont(b[i + 1])
              /\ IsCont(b[i + 2])
              /\ IsCont(b[i + 3])
              /\ (c = 240 => b[i + 1] >= 144)
              /\ (c = 244 => b[i + 1] <= 143)
              /\ Utf8WellFormed(b, i + 4)
         ELSE FALSE

decode_utf8(b) == IF Utf8WellFormed(b, 1) THEN Returned(b) ELSE Raised

(***************************************************************************)
(* username, password = decoded.split(':', 1): raises when there is no ':'  *)
(***************************************************************************)
\* split_colon splitting at the last ':' (rsplit) instead of the first
split_colon_at_last(decoded) ==
    LET at == {i \in 1..Len(decoded) : decoded[i] = Colon} IN
    IF at = {} THEN Raised
    ELSE LET k == CHOOSE i \in at : \A j \in at : j <= i IN
         Returned([username |-> SubSeq(decoded, 1, k - 1),
                   password |-> Drop(decoded, k)])

split_colon(decoded) ==
    LET k == Find(decoded, Colon) IN
    IF k = 0 THEN Raised
    ELSE Returned([username |-> SubSeq(decoded, 1, k - 1),
                   password |-> Drop(decoded, k)])

(***************************************************************************)
(* base64 encoding, as a client does it to build a Basic credential        *)
(* (tests/test_ports.py: HTTPBasicAuth('token', devtools_token)).          *)
(***************************************************************************)
b2a_char(v) ==
    IF v < 26 THEN v + 65
    ELSE IF v < 52 THEN v + 71
    ELSE IF v < 62 THEN v - 4
    ELSE IF v = 62 THEN 43
    ELSE 47

RECURSIVE b64encode(_)
b64encode(b) ==
    IF Len(b) = 0 THEN <<>>
    ELSE IF Len(b) = 1
    THEN <<b2a_char(b[1] \div 4), b2a_char((b[1] % 4) * 16), Pad, Pad>>
    ELSE IF Len(b) = 2
    THEN <<b2a_char(b[1] \div 4),
           b2a_char((b[1] % 4) * 16 + (b[2] \div 16)),
           b2a_char((b[2] % 16) * 4), Pad>>
    ELSE <<b2a_char(b[1] \div 4),
           b2a_char((b[1] % 4) * 16 + (b[2] \div 16)),
           b2a_char((b[2] % 16) * 4 + (b[3] \div 64)),
           b2a_char(b[3] % 64)>> \o b64encode(Drop(b, 3))

(***************************************************************************)
(* Header mappings.  A header list is a sequence of [name, value] fields   *)
(* in the order received; lookups ignore case.                             *)
(***************************************************************************)
Hdr(n, v) == [name |-> n, value |-> v]

\* str.lower() on the header names that occur
lower(n) ==
    CASE n = "Host" -> "host"
      [] n = "Authorization" -> "authorization"
      [] n = "AUTHORIZATION" -> "authorization"
      [] n = "Connection" -> "connection"
      [] n = "CONNECTION" -> "connection"
      [] n = "Transfer-Encoding" -> "transfer-encoding"
      [] n = "Content-Length" -> "content-length"
      [] n = "Content-length" -> "content-length"
      [] n = "Content-Type" -> "content-type"
      [] n = "Content-type" -> "content-type"
      [] n = "X-Foo" -> "x-foo"
      [] n = "X-foo" -> "x-foo"
      [] n = "X-Up" -> "x-up"
      [] n = "Cookie" -> "cookie"
      [] n = "Set-Cookie" -> "set-cookie"
      [] n = "Location" -> "location"
      [] n = "User-Agent" -> "user-agent"
      [] n = "User-agent" -> "user-agent"
      [] n = "Accept-Encoding" -> "accept-encoding"
      [] n = "Server" -> "server"
      [] n = "Date" -> "date"
      [] n = "WWW-Authenticate" -> "www-authenticate"
      [] OTHER -> n

\* str.capitalize(), the key urllib's Request.add_header stores a header under
capitalize(n) ==
    CASE lower(n) = "host" -> "Host"
      [] lower(n) = "authorization" -> "Authorization"
      [] lower(n) = "connection" -> "Connection"
      [] lower(n) = "content-length" -> "Content-length"
      [] lower(n) = "content-type" -> "Content-type"
      [] lower(n) = "x-foo" -> "X-foo"
      [] lower(n) = "cookie" -> "Cookie"
      [] lower(n) = "user-agent" -> "User-agent"
      [] lower(n) = "transfer-encoding" -> "Transfer-encoding"
      [] OTHER -> n

\* str.title(), the name http.client puts on the wire
title(n) ==
    CASE lower(n) = "host" -> "Host"
      [] lower(n) = "authorization" -> "Authorization"
      [] lower(n) = "connection" -> "Connection"
      [] lower(n) = "content-length" -> "Content-Length"
      [] lower(n) = "content-type" -> "Content-Type"
      [] lower(n) = "x-foo" -> "X-Foo"
      [] lower(n) = "cookie" -> "Cookie"
      [] lower(n) = "user-agent" -> "User-Agent"
      [] lower(n) = "transfer-encoding" -> "Transfer-Encoding"
      [] OTHER -> n

\* index of the first header named n (ignoring case), 0 when absent
RECURSIVE HeaderIndex(_, _, _)
HeaderIndex(h, n, i) ==
    IF i > Len(h) THEN 0
    ELSE IF lower(h[i].name) = lower(n) THEN i
    ELSE HeaderIndex(h, n, i + 1)

HasHeader(h, n) == HeaderIndex(h, n, 1) # 0

\* self.headers.get(n, default): the first header of that name
HeaderGet(h, n, default) ==
    IF HasHeader(h, n) THEN h[HeaderIndex(h, n, 1)].value ELSE default

\* a dict assignment d[k] = v on a sequence of fields with distinct names:
\* an existing key keeps its place and takes the new value
DictSet(d, k, v) ==
    IF \E i \in 1..Len(d) : d[i].name = k
    THEN [i \in 1..Len(d) |-> IF d[i].name = k THEN Hdr(k, v) ELSE d[i]]
    ELSE Append(d, Hdr(k, v))

DictHas(d, k) == \E i \in 1..Len(d) : d[i].name = k

(***************************************************************************)
(* AuthProxyHandler.authenticate (devtools_proxy.py:55-78).                *)
(* auth_token is [isNone, s]: None, or the string s.                       *)
(***************************************************************************)
NoToken == [isNone |-> TRUE, s |-> <<>>]

Token(s) == [isNone |-> FALSE, s |-> s]

\* TokenFalsy as "self.auth_token is None": an empty secret demands a credential
TokenFalsy_is_none(tok) == tok.isNone

\* not self.auth_token
TokenFalsy(tok) == tok.isNone \/ tok.s = <<>>

\* CredentialAccepted with the rule "simplified": the user name is enforced
CredentialAccepted_user_enforced(auth_header, tok) ==
    LET encoded == Drop(auth_header, Find(auth_header, Space))
        raw == b64decode(encoded)
        decoded == IF raw.ok THEN decode_utf8(raw.val) ELSE Raised
        parts == IF decoded.ok THEN split_colon(decoded.val) ELSE Raised
        username == parts.val.username
        password == parts.val.password
    IN  /\ parts.ok
        /\ \/ username = TokenUser /\ password = tok.s
           \/ username = <<>> /\ password = tok.s

\* CredentialAccepted with "or" for "and" in the first rule (line 69)
CredentialAccepted_token_or(auth_header, tok) ==
    LET encoded == Drop(auth_header, Find(auth_header, Space))
        raw == b64decode(encoded)
        decoded == IF raw.ok THEN decode_utf8(raw.val) ELSE Raised
        parts == IF decoded.ok THEN split_colon(decoded.val) ELSE Raised
        username == parts.val.username
        password == parts.val.password
    IN  /\ parts.ok
        /\ \/ username = TokenUser \/ password = tok.s
           \/ username = <<>> /\ password = tok.s
           \/ password = tok.s

\* lines 63-76: the try block; TRUE when one of its returns is taken
CredentialAccepted(auth_header, tok) ==
    LET encoded == Drop(auth_header, Find(auth_header, Space))
        raw == b64decode(encoded)
        decoded == IF raw.ok THEN decode_utf8(raw.val) ELSE Raised
        parts == IF decoded.ok THEN split_colon(decoded.val) ELSE Raised
        username == parts.val.username
        password == parts.val.password
    IN  /\ parts.ok
        /\ \/ username = TokenUser /\ password = tok.s
           \/ username = <<>> /\ password = tok.s
           \/ password = tok.s

authenticate(headers, tok) ==
    IF TokenFalsy(tok) THEN TRUE
    ELSE LET auth_header == HeaderGet(headers, "Authorization", <<>>) IN
         IF ~StartsWith(auth_header, BasicPrefix) THEN FALSE
         ELSE CredentialAccepted(auth_header, tok)

(***************************************************************************)
(* Responses written to the client.  A response is [code, reason,          *)
(* headers, body]; a body is [kind, data, message] with kind "bytes"       *)
(* (data written), "errorpage" (the listener's HTML error page carrying    *)
(* message) or "none" (no body byte written).  An exception is [type,      *)
(* code]; a message is [prefix, exc], the text prefix followed by str(exc).*)
(***************************************************************************)
NoExc == [type |-> "none", code |-> 0]

Exc(t, c) == [type |-> t, code |-> c]

Msg(p, e) == [prefix |-> p, exc |-> e]

BytesBody(d) == [kind |-> "bytes", data |-> d, message |-> Msg("", NoExc)]

NoBody == [kind |-> "none", data |-> <<>>, message |-> Msg("", NoExc)]

ErrorPage(m) == [kind |-> "errorpage", data |-> <<>>, message |-> m]

\* BaseHTTPRequestHandler.responses[code][0]
ReasonPhrase(code) ==
    CASE code = 200 -> "OK"
      [] code = 204 -> "No Content"
      [] code = 401 -> "Unauthorized"
      [] OTHER -> ""

\* values the listener generates whose content no claim depends on
ServerVersion == <<66, 97, 115, 101, 72, 84, 84, 80>>

DateNow == <<>>

\* 'close'
CloseValue == <<99, 108, 111, 115, 101>>

\* send_response(code, message): status line, then Server and Date
send_response(code, m) ==
    [code |-> code, reason |-> m,
     headers |-> <<Hdr("Server", ServerVersion), Hdr("Date", DateNow)>>,
     body |-> NoBody]

send_header(resp, n, v) == [resp EXCEPT !.headers = Append(@, Hdr(n, v))]

\* 'Basic realm="Chrome DevTools"' (devtools_proxy.py:82)
Realm ==
    <<66, 97, 115, 105, 99, 32, 114, 101, 97, 108, 109, 61, 34, 67, 104,
      114, 111, 109, 101, 32, 68, 101, 118, 84, 111, 111, 108, 115, 34>>

\* 'text/html' (devtools_proxy.py:83)
TextHtml == <<116, 101, 120, 116, 47, 104, 116, 109, 108>>

\* b'<html><body><h1>401 Unauthorized</h1></body></html>' (devtools_proxy.py:85)
UnauthorizedPage ==
    <<60, 104, 116, 109, 108, 62, 60, 98, 111, 100, 121, 62, 60, 104, 49,
      62, 52, 48, 49, 32, 85, 110, 97, 117, 116, 104, 111, 114, 105, 122,
      101, 100, 60, 47, 104, 49, 62, 60, 47, 98, 111, 100, 121, 62, 60, 47,
      104, 116, 109, 108, 62>>

\* AuthProxyHandler.send_auth_required (devtools_proxy.py:80-85)
send_auth_required ==
    [send_header(
        send_header(send_response(401, Msg(ReasonPhrase(401), NoExc)),
                    "WWW-Authenticate", Realm),
        "Content-Type", TextHtml)
     EXCEPT !.body = BytesBody(UnauthorizedPage)]

\* 'text/html;charset=utf-8', the content type of the listener's error page
ErrorContentType ==
    <<116, 101, 120, 116, 47, 104, 116, 109, 108, 59, 99, 104, 97, 114, 115,
      101, 116, 61, 117, 116, 102, 45, 56>>

\* BaseHTTPRequestHandler.send_error(code, message) for a request whose
\* method is command: Connection: close, and the error page unless HEAD
send_error(code, m, command) ==
    LET r0 == send_header(send_response(code, m), "Connection", CloseValue)
        hasPage == code >= 200 /\ code \notin {204, 205, 304}
        r1 == IF hasPage
              THEN send_header(send_header(r0, "Content-Type", ErrorContentType),
                               "Content-Length", <<>>)
              ELSE r0
    IN  [r1 EXCEPT !.body = IF command # "HEAD" /\ hasPage
                            THEN ErrorPage(m) ELSE NoBody]

\* ProxyError answering 500 instead of 502
ProxyError_500(e, command) == send_error(500, Msg("Proxy error: ", e), command)

\* the except branch of proxy_request (devtools_proxy.py:117-118)
ProxyError(e, command) == send_error(502, Msg("Proxy error: ", e), command)

(***************************************************************************)
(* The upstream request.  proxy_request builds a urllib Request            *)
(* (devtools_proxy.py:88-103); urlopen (line 106) puts it on the wire with *)
(* the headers the HTTP client adds.                                       *)
(***************************************************************************)
\* self.target_host, self.target_port (defaults of main(), lines 126-127)
target_host == <<49, 50, 55, 46, 48, 46, 48, 46, 49>>

target_port == 9223

\* str(n) for n >= 0
RECURSIVE IntToStr(_)
IntToStr(n) ==
    IF n < 10 THEN <<48 + n>>
    ELSE Append(IntToStr(n \div 10), 48 + (n % 10))

\* 'http://'
HttpScheme == <<104, 116, 116, 112, 58, 47, 47>>

\* f'http://{self.target_host}:{self.target_port}{self.path}'
TargetUrl(path) ==
    HttpScheme \o target_host \o <<Colon>> \o IntToStr(target_port) \o path

\* StrippedRequestHeaders without the credential header
StrippedRequestHeaders_no_authorization == {"host", "connection"}

\* the names proxy_request does not copy (line 96)
StrippedRequestHeaders == {"host", "authorization", "connection"}

\* lines 95-97: req.add_header for every header that is not stripped; the
\* Request keeps one value per capitalized name, the last one added
RECURSIVE CopyRequestHeaders(_, _, _)
CopyRequestHeaders(h, i, acc) ==
    IF i > Len(h) THEN acc
    ELSE CopyRequestHeaders(h, i + 1,
            IF lower(h[i].name) \notin StrippedRequestHeaders
            THEN DictSet(acc, capitalize(h[i].name), h[i].value)
            ELSE acc)

NoData == [present |-> FALSE, bytes |-> <<>>]

Data(b) == [present |-> TRUE, bytes |-> b]

\* int(s) for the Content-Length value: an optional sign and digits
RECURSIVE DigitsValue(_, _)
DigitsValue(s, acc) ==
    IF Len(s) = 0 THEN acc
    ELSE DigitsValue(Tail(s), acc * 10 + (s[1] - 48))

AllDigits(s) == Len(s) > 0 /\ \A i \in 1..Len(s) : s[i] >= 48 /\ s[i] <= 57

ParseInt(s) ==
    IF AllDigits(s) THEN Returned(DigitsValue(s, 0))
    ELSE IF Len(s) > 1 /\ s[1] = 45 /\ AllDigits(Tail(s))
    THEN Returned(0 - DigitsValue(Tail(s), 0))
    ELSE IF Len(s) > 1 /\ s[1] = 43 /\ AllDigits(Tail(s))
    THEN Returned(DigitsValue(Tail(s), 0))
    ELSE Raised

\* 'application/x-www-form-urlencoded', urllib's default for a body
FormUrlEncoded ==
    <<97, 112, 112, 108, 105, 99, 97, 116, 105, 111, 110, 47, 120, 45, 119,
      119, 119, 45, 102, 111, 114, 109, 45, 117, 114, 108, 101, 110, 99,
      111, 100, 101, 100>>

\* 'Python-urllib'
UrllibAgent == <<80, 121, 116, 104, 111, 110, 45, 117, 114, 108, 108, 105, 98>>

\* 'identity'
Identity == <<105, 100, 101, 110, 116, 105, 116, 121>>

\* Request.get_method(): no method is given to Request(target_url)
get_method(data) == IF data.present THEN "POST" ELSE "GET"

\* headers added by AbstractHTTPHandler.do_request_ (unredirected headers)
RECURSIVE AddAll(_, _, _)
AddAll(d, extra, i) ==
    IF i > Len(extra) THEN d
    ELSE AddAll(IF DictHas(d, extra[i].name) THEN d
                ELSE Append(d, extra[i]), extra, i + 1)

Unredirected(hostport, headers, data) ==
    LET u1 == IF data.present /\ ~DictHas(headers, "Content-type")
              THEN <<Hdr("Content-type", FormUrlEncoded)>> ELSE <<>>
        u2 == IF data.present /\ ~DictHas(headers, "Content-length")
              THEN Append(u1, Hdr("Content-length", IntToStr(Len(data.bytes))))
              ELSE u1
        u3 == IF ~DictHas(headers, "Host")
              THEN Append(u2, Hdr("Host", hostport)) ELSE u2
    IN  IF ~DictHas(headers, "User-agent")
        THEN Append(u3, Hdr("User-agent", UrllibAgent)) ELSE u3

\* the request as AbstractHTTPHandler.do_open and http.client send it:
\* merged is the header dict do_open builds, titled its title-cased items
\* (each is computed once and bound)
WireRequest(url, hostport, headers, data) ==
    CHOOSE w \in
        { [method |-> get_method(data),
           url |-> url,
           headers |-> IF HasHeader(titled, "Accept-Encoding") THEN titled
                       ELSE <<Hdr("Accept-Encoding", Identity)>> \o titled,
           req_headers |-> headers,
           body |-> data] :
          titled \in
            { [i \in 1..Len(merged) |->
                  Hdr(title(merged[i].name), merged[i].value)] :
              merged \in
                { DictSet(AddAll(Unredirected(hostport, headers, data),
                                 headers, 1),
                          "Connection", CloseValue) } } } : TRUE

(***************************************************************************)
(* Relaying (devtools_proxy.py:106-115).                                   *)
(***************************************************************************)
\* StrippedResponseHeaders without transfer-encoding
StrippedResponseHeaders_connection_only == {"connection"}

\* the names of the upstream response that are not relayed (line 110)
StrippedResponseHeaders == {"connection", "transfer-encoding"}

RECURSIVE CopyResponseHeaders(_, _, _)
CopyResponseHeaders(resp, h, i) ==
    IF i > Len(h) THEN resp
    ELSE CopyResponseHeaders(
            IF lower(h[i].name) \notin StrippedResponseHeaders
            THEN send_header(resp, h[i].name, h[i].value)
            ELSE resp,
            h, i + 1)

\* RelayHead answering 200 whatever the upstream status is
RelayHead_always_200(up) ==
    CopyResponseHeaders(
        send_response(200, Msg(ReasonPhrase(200), NoExc)),
        up.headers, 1)

\* lines 108-112: status line and headers of the relayed response
RelayHead(up) ==
    CopyResponseHeaders(
        send_response(up.status, Msg(ReasonPhrase(up.status), NoExc)),
        up.headers, 1)

\* lines 106-118 once urlopen has returned response up: what is written to
\* the client.  When response.read() raises, the status line and headers
\* are already out and the except branch writes its 502 after them.
Relay(up, command) ==
    IF up.readOk
    THEN <<[RelayHead(up) EXCEPT !.body = BytesBody(up.body)]>>
    ELSE <<RelayHead(up), ProxyError(Exc("IncompleteRead", 0), command)>>

(***************************************************************************)
(* urlopen's handling of the upstream status (line 106): a 2xx response is *)
(* returned; 301/302/303/307/308 with a Location is followed with a new    *)
(* GET when the method allows it; every other status raises HTTPError.     *)
(***************************************************************************)
RedirectCodes == {301, 302, 303, 307, 308}

\* IsSuccess taking every status below 500 for a success
IsSuccess_below_500(status) == status >= 200 /\ status < 500

IsSuccess(status) == status >= 200 /\ status < 300

\* HTTPRedirectHandler.redirect_request's condition on code and method
Followable(up, method) ==
    /\ up.status \in RedirectCodes
    /\ HasHeader(up.headers, "Location")
    /\ \/ method = "GET"
       \/ method = "POST" /\ up.status \in {301, 302, 303}

\* the host[:port] part of an http URL: what follows '//' up to '/', '?', '#'
RECURSIVE NetlocEnd(_, _)
NetlocEnd(s, i) ==
    IF i > Len(s) THEN i
    ELSE IF s[i] \in {47, 63, 35} THEN i
    ELSE NetlocEnd(s, i + 1)

UrlHost(url) ==
    SubSeq(url, Len(HttpScheme) + 1, NetlocEnd(url, Len(HttpScheme) + 1) - 1)

\* redirect_request: the new Request keeps the headers except the content
\* headers and carries no data
RedirectHeaders(headers) ==
    SelectSeq(headers,
              LAMBDA f : lower(f.name) \notin {"content-length", "content-type"})

(***************************************************************************)
(* Inputs: configurations, client requests and upstream responses.         *)
(***************************************************************************)
\* the most redirects the upstream answers one client request with
MaxRedirects == 1

\* the most connections waiting to be accepted
MaxBacklog == 1

S_s3cr3t == <<115, 51, 99, 114, 51, 116>>

S_wrong == <<119, 114, 111, 110, 103>>

S_anyone == <<97, 110, 121, 111, 110, 101>>

S_ab == <<97, 58, 98>>

S_xab == <<120, 58, 97, 58, 98>>

S_u == <<117>>

\* DEVTOOLS_TOKEN: unset, empty, or a secret (devtools_proxy.py:128)
Secrets == {NoToken, Token(<<>>), Token(S_s3cr3t), Token(S_ab)}

\* user names of Basic credentials: they hold no ':' (RFC 7617)
Usernames == {TokenUser, <<>>, S_anyone, S_u}

Passwords == {S_s3cr3t, S_wrong, S_ab, S_xab, <<>>}

Cred(u, p) == u \o <<Colon>> \o p

\* the Authorization value a client builds for a credential
Basic(c) == BasicPrefix \o b64encode(c)

WellFormedAuth == {Basic(Cred(u, p)) : u \in Usernames, p \in Passwords}

GoodPayload == b64encode(Cred(TokenUser, S_s3cr3t))

\* Authorization values that are not "Basic " + base64(user:password)
MalformedAuth ==
    { BasicPrefix \o GoodPayload \o <<33>>,
      BasicPrefix \o SubSeq(GoodPayload, 1, 4) \o <<32>> \o Drop(GoodPayload, 4),
      BasicPrefix \o <<61>> \o GoodPayload,
      BasicPrefix \o SubSeq(GoodPayload, 1, Len(GoodPayload) - 1),
      BasicPrefix \o GoodPayload \o <<90>>,
      BasicPrefix \o GoodPayload \o <<233>>,
      BasicPrefix \o b64encode(<<255, 58>> \o S_s3cr3t),
      BasicPrefix \o b64encode(<<110, 111, 99, 111, 108, 111, 110>>),
      BasicPrefix \o b64encode(S_s3cr3t),
      BasicPrefix,
      <<66, 101, 97, 114, 101, 114, 32>> \o S_s3cr3t,
      <<98, 97, 115, 105, 99, 32>> \o GoodPayload,
      <<66, 97, 115, 105, 99>> \o GoodPayload }

HostHdr == Hdr("Host", <<104>>)

GoodAuth == Basic(Cred(TokenUser, S_s3cr3t))

AuthHeaderLists ==
    {<<>>}
    \cup {<<Hdr("Authorization", v)>> : v \in WellFormedAuth \cup MalformedAuth}
    \cup { <<Hdr("authorization", GoodAuth)>>,
           <<Hdr("AUTHORIZATION", GoodAuth)>>,
           <<Hdr("Authorization", Basic(Cred(TokenUser, S_wrong))),
             Hdr("Authorization", GoodAuth)>> }

P_json == <<47, 106, 115, 111, 110>>

P_version == <<47, 106, 115, 111, 110, 47, 118, 101, 114, 115, 105, 111,
               110, 63, 120, 61, 49>>

ExtraHeaderLists ==
    { <<HostHdr, Hdr("Connection", <<107>>), Hdr("X-Foo", <<98, 97, 114>>)>>,
      <<Hdr("CONNECTION", CloseValue), Hdr("X-Foo", <<97>>),
        Hdr("x-foo", <<98>>), Hdr("Cookie", <<99>>)>>,
      <<HostHdr, Hdr("User-Agent", <<99, 117, 114, 108>>),
        Hdr("Content-Type", <<106>>)>> }

\* SupportedMethods with a handler for OPTIONS as well
SupportedMethods_with_options ==
    {"GET", "POST", "PUT", "DELETE", "HEAD", "OPTIONS"}

\* the methods AuthProxyHandler defines a do_<METHOD> for (lines 20-53)
SupportedMethods == {"GET", "POST", "PUT", "DELETE", "HEAD"}

Methods == SupportedMethods \cup {"OPTIONS"}

Req(m, p, h, b, e) ==
    [command |-> m, path |-> p, headers |-> h, body |-> b, eof |-> e]

\* requests that differ in their credential
AuthRequests ==
    {Req("GET", P_json, <<HostHdr>> \o a, <<>>, TRUE) : a \in AuthHeaderLists}

\* requests that differ in method and in the headers to forward
HeaderRequests ==
    {Req(m, P_version, e \o <<Hdr("Authorization", GoodAuth)>>, <<>>, TRUE) :
        m \in Methods, e \in ExtraHeaderLists}

\* Content-Length and the body bytes the client sends; eof: the client
\* then closes its sending side
BodyCases ==
    { [cl |-> <<>>, body |-> <<97, 98>>, eof |-> TRUE],
      [cl |-> <<Hdr("Content-Length", <<48>>)>>, body |-> <<>>, eof |-> TRUE],
      [cl |-> <<Hdr("Content-Length", <<50>>)>>, body |-> <<97, 98>>, eof |-> FALSE],
      [cl |-> <<Hdr("Content-Length", <<50>>)>>, body |-> <<97, 98, 99>>, eof |-> FALSE],
      [cl |-> <<Hdr("Content-Length", <<50>>)>>, body |-> <<97>>, eof |-> TRUE],
      [cl |-> <<Hdr("Content-Length", <<50>>)>>, body |-> <<97>>, eof |-> FALSE],
      [cl |-> <<Hdr("Content-Length", <<50>>)>>, body |-> <<>>, eof |-> TRUE],
      [cl |-> <<Hdr("Content-Length", <<122, 122>>)>>, body |-> <<>>, eof |-> TRUE],
      [cl |-> <<Hdr("Content-Length", <<45, 49>>)>>, body |-> <<>>, eof |-> TRUE] }

BodyRequests ==
    {Req(m, P_json, <<HostHdr, Hdr("Authorization", GoodAuth)>> \o c.cl,
         c.body, c.eof) : m \in {"POST", "PUT"}, c \in BodyCases}
    \cup {Req(m, P_json, <<HostHdr, Hdr("Authorization", GoodAuth),
                           Hdr("Content-Length", <<50>>)>>,
               <<97, 98>>, FALSE) : m \in {"GET", "DELETE", "HEAD"}}

\* '0/json': a request target that does not start with '/', which
\* BaseHTTPRequestHandler.parse_request accepts as self.path
P_digit == <<48, 47, 106, 115, 111, 110>>

\* requests that differ in the form of their path
PathRequests ==
    {Req("GET", P_digit, <<HostHdr, Hdr("Authorization", GoodAuth)>>, <<>>, TRUE)}

Requests == AuthRequests \cup HeaderRequests \cup BodyRequests \cup PathRequests

Up(s, h, b, ok) == [status |-> s, headers |-> h, body |-> b, readOk |-> ok]

U_plain == <<Hdr("Content-Type", <<106>>), Hdr("X-Up", <<118>>)>>

U_hop ==
    <<Hdr("Connection", CloseValue), Hdr("Set-Cookie", <<49>>),
      Hdr("Transfer-Encoding", <<99>>), Hdr("Set-Cookie", <<50>>),
      Hdr("CONNECTION", <<107>>)>>

L_same == TargetUrl(<<47, 108>>)

L_other == HttpScheme \o <<101, 118, 105, 108>> \o <<47, 120>>

UpstreamResponses ==
    { Up(200, U_plain, <<97, 98>>, TRUE),
      Up(200, U_hop, <<97, 98>>, TRUE),
      Up(200, U_plain, <<97, 98>>, FALSE),
      Up(204, U_plain, <<>>, TRUE),
      Up(302, U_plain \o <<Hdr("Location", L_same)>>, <<>>, TRUE),
      Up(301, U_hop \o <<Hdr("Location", L_other)>>, <<>>, TRUE),
      Up(307, U_plain \o <<Hdr("Location", L_same)>>, <<>>, TRUE),
      Up(302, U_plain, <<>>, TRUE),
      Up(304, U_plain, <<>>, TRUE),
      Up(404, U_plain, <<110>>, TRUE),
      Up(500, U_hop, <<101>>, TRUE) }

(***************************************************************************)
(* State.                                                                  *)
(***************************************************************************)
VARIABLES
    auth_token,    \* the configured secret (ProxyConfig, never changed)
    pc,            \* "idle" | "Handling" | "ReadingBody" | "Forwarding" |
                   \* "Relaying" | "Responded"
    request,       \* the request being served, or the last one served
    authorized,    \* "none" | "allow" | "deny": what authenticate() returned
    req,           \* the urllib Request proxy_request builds
    upstream_log,  \* the upstream requests issued for `request`, in order
    redirects,     \* redirects followed by the urlopen in progress
    sent,          \* the responses written to the client for `request`
    upstream_answers, \* what the upstream answered to upstream_log, in order
    outcome,       \* "none" | "NotImplemented" | "Denied" | "Relayed" | "Failed"
    backlog,       \* connections completed by the kernel, not yet accepted
    active,        \* connections accepted and not yet shut down
    prev_outcome   \* the outcome of the cycle before the current one

vars == <<auth_token, pc, request, authorized, req, upstream_log, redirects,
          sent, upstream_answers, outcome, backlog, active, prev_outcome>>

\* an answer of the upstream: a refused connection, or a response
Refusal == [kind |-> "refused", resp |-> [status |-> 0, headers |-> <<>>,
                                          body |-> <<>>, readOk |-> FALSE]]

Response(up) == [kind |-> "response", resp |-> up]

NoRequest == Req("", <<>>, <<>>, <<>>, TRUE)

NoReq == [url |-> <<>>, headers |-> <<>>, data |-> NoData]

Init ==
    /\ auth_token \in Secrets
    /\ pc = "idle"
    /\ request = NoRequest
    /\ authorized = "none"
    /\ req = NoReq
    /\ upstream_log = <<>>
    /\ redirects = 0
    /\ sent = <<>>
    /\ upstream_answers = <<>>
    /\ outcome = "none"
    /\ backlog = 0
    /\ active = 0
    /\ prev_outcome = "none"

\* the handler returns after writing responses rs
Finish(rs, o) ==
    /\ sent' = rs
    /\ outcome' = o
    /\ pc' = "Responded"

\* urlopen(req) puts the request on the wire and blocks for the answer
Urlopen(r) ==
    /\ upstream_log' = <<WireRequest(r.url, UrlHost(r.url), r.headers, r.data)>>
    /\ pc' = "Forwarding"
    /\ UNCHANGED <<redirects, sent, outcome>>

\* a client connects to the listening socket (devtools_proxy.py:143); the
\* kernel queues the connection until the server loop accepts it
Connect ==
    /\ backlog < MaxBacklog
    /\ backlog' = backlog + 1
    /\ UNCHANGED <<auth_token, pc, request, authorized, req, upstream_log,
                   redirects, sent, upstream_answers, outcome, active,
                   prev_outcome>>

\* proxy_request up to its first blocking call (lines 88-103)
StartProxy(r) ==
    LET built == [url |-> TargetUrl(r.path),
                  headers |-> CopyRequestHeaders(r.headers, 1, <<>>),
                  data |-> NoData]
        cl == IF HasHeader(r.headers, "Content-Length")
              THEN ParseInt(HeaderGet(r.headers, "Content-Length", <<>>))
              ELSE Returned(0)
    IN  /\ req' = built
        /\ IF r.command \in {"POST", "PUT"} /\ ~cl.ok
           THEN /\ Finish(<<ProxyError(Exc("ValueError", 0), r.command)>>, "Failed")
                /\ UNCHANGED <<upstream_log, redirects>>
           ELSE IF r.command \in {"POST", "PUT"} /\ cl.val > 0
           THEN /\ pc' = "ReadingBody"
                /\ UNCHANGED <<sent, outcome, upstream_log, redirects>>
           ELSE Urlopen(built)

\* Accept taking a connection while a request is being served, as a
\* threading server would
Accept_while_busy(r) ==
    /\ backlog > 0
    /\ backlog' = backlog - 1
    /\ active' = active + 1
    /\ request' = r
    /\ pc' = "Handling"
    /\ authorized' = "none"
    /\ req' = NoReq
    /\ upstream_log' = <<>>
    /\ redirects' = 0
    /\ sent' = <<>>
    /\ upstream_answers' = <<>>
    /\ outcome' = "none"
    /\ UNCHANGED <<auth_token, prev_outcome>>

\* One connection is accepted and its request line and headers are parsed
\* (serve_forever, devtools_proxy.py:143-144, then handle_one_request);
\* nothing has been written for it yet.  socketserver.TCPServer takes a
\* connection only when no request is being served.
Accept(r) ==
    /\ pc = "idle"
    /\ backlog > 0
    /\ backlog' = backlog - 1
    /\ active' = active + 1
    /\ request' = r
    /\ pc' = "Handling"
    /\ authorized' = "none"
    /\ req' = NoReq
    /\ upstream_log' = <<>>
    /\ redirects' = 0
    /\ sent' = <<>>
    /\ upstream_answers' = <<>>
    /\ outcome' = "none"
    /\ UNCHANGED <<auth_token, prev_outcome>>

\* Handle with the "return" after send_auth_required missing (line 23)
Handle_no_return ==
    /\ pc = "Handling"
    /\ UNCHANGED <<auth_token, request, upstream_answers, backlog, active,
                   prev_outcome>>
    /\ IF request.command \notin SupportedMethods
       THEN /\ Finish(<<send_error(501, Msg("Unsupported method", NoExc),
                                   request.command)>>, "NotImplemented")
            /\ UNCHANGED <<authorized, req, upstream_log, redirects>>
       ELSE /\ authorized' = IF authenticate(request.headers, auth_token)
                             THEN "allow" ELSE "deny"
            /\ StartProxy(request)

\* Handle refusing every credential once the previous request was denied
Handle_lockout ==
    /\ pc = "Handling"
    /\ UNCHANGED <<auth_token, request, upstream_answers, backlog, active,
                   prev_outcome>>
    /\ IF request.command \notin SupportedMethods
       THEN /\ Finish(<<send_error(501, Msg("Unsupported method", NoExc),
                                   request.command)>>, "NotImplemented")
            /\ UNCHANGED <<authorized, req, upstream_log, redirects>>
       ELSE IF prev_outcome = "Denied"
               \/ ~authenticate(request.headers, auth_token)
       THEN /\ authorized' = "deny"
            /\ Finish(<<send_auth_required>>, "Denied")
            /\ UNCHANGED <<req, upstream_log, redirects>>
       ELSE /\ authorized' = "allow"
            /\ StartProxy(request)

\* The handler runs up to its first blocking call: the method dispatch of
\* handle_one_request (501 when there is no do_<METHOD>), do_<METHOD>
\* (lines 20-53), authenticate, then send_auth_required or proxy_request.
Handle ==
    /\ pc = "Handling"
    /\ UNCHANGED <<auth_token, request, upstream_answers, backlog, active,
                   prev_outcome>>
    /\ IF request.command \notin SupportedMethods
       THEN /\ Finish(<<send_error(501, Msg("Unsupported method", NoExc),
                                   request.command)>>, "NotImplemented")
            /\ UNCHANGED <<authorized, req, upstream_log, redirects>>
       ELSE IF ~authenticate(request.headers, auth_token)
       THEN /\ authorized' = "deny"
            /\ Finish(<<send_auth_required>>, "Denied")
            /\ UNCHANGED <<req, upstream_log, redirects>>
       ELSE /\ authorized' = "allow"
            /\ StartProxy(request)

\* ReadBody waiting for all the bytes asked for even when the client has
\* closed its sending side
ReadBody_ignores_eof ==
    /\ pc = "ReadingBody"
    /\ LET n == ParseInt(HeaderGet(request.headers, "Content-Length", <<>>)).val
       IN  /\ Len(request.body) >= n
           /\ LET full == [req EXCEPT !.data = Data(SubSeq(request.body, 1, n))]
              IN  /\ req' = full
                  /\ Urlopen(full)
    /\ UNCHANGED <<auth_token, request, authorized, upstream_answers, backlog,
                   active, prev_outcome>>

\* ReadBody attaching every byte the client has sent, whatever was asked for
ReadBody_whole_body ==
    /\ pc = "ReadingBody"
    /\ LET n == ParseInt(HeaderGet(request.headers, "Content-Length", <<>>)).val
       IN  /\ Len(request.body) >= n \/ request.eof
           /\ LET full == [req EXCEPT !.data = Data(request.body)]
              IN  /\ req' = full
                  /\ Urlopen(full)
    /\ UNCHANGED <<auth_token, request, authorized, upstream_answers, backlog,
                   active, prev_outcome>>

\* self.rfile.read(content_length) returns (line 103): with the bytes asked
\* for, or with fewer when the client has closed; then urlopen is called
ReadBody ==
    /\ pc = "ReadingBody"
    /\ LET n == ParseInt(HeaderGet(request.headers, "Content-Length", <<>>)).val
       IN  /\ Len(request.body) >= n \/ request.eof
           /\ LET got == IF Len(request.body) >= n
                         THEN SubSeq(request.body, 1, n) ELSE request.body
                  full == [req EXCEPT !.data = Data(got)]
              IN  /\ req' = full
                  /\ Urlopen(full)
    /\ UNCHANGED <<auth_token, request, authorized, upstream_answers, backlog,
                   active, prev_outcome>>

\* UpstreamRefused as a timeout of urlopen: the upstream has not answered
\* and the handler gives up on its own
UpstreamRefused_timeout ==
    /\ pc = "Forwarding"
    /\ Finish(<<ProxyError(Exc("URLError", 110), request.command)>>, "Failed")
    /\ UNCHANGED <<auth_token, request, authorized, req, upstream_log,
                   redirects, upstream_answers, backlog, active, prev_outcome>>

\* the connection to the upstream is refused: urlopen raises URLError
UpstreamRefused ==
    /\ pc = "Forwarding"
    /\ Finish(<<ProxyError(Exc("URLError", 111), request.command)>>, "Failed")
    /\ upstream_answers' = Append(upstream_answers, Refusal)
    /\ UNCHANGED <<auth_token, request, authorized, req, upstream_log,
                   redirects, backlog, active, prev_outcome>>

\* the upstream answers the request in flight with response up
UpstreamResponds(up) ==
    /\ pc = "Forwarding"
    /\ upstream_answers' = Append(upstream_answers, Response(up))
    /\ LET cur == upstream_log[Len(upstream_log)] IN
       IF IsSuccess(up.status)
       THEN /\ sent' = <<RelayHead(up)>>
            /\ pc' = "Relaying"
            /\ UNCHANGED <<upstream_log, redirects, outcome>>
       ELSE IF Followable(up, cur.method)
       THEN /\ redirects < MaxRedirects
            /\ LET url == HeaderGet(up.headers, "Location", <<>>) IN
               upstream_log' = Append(upstream_log,
                   WireRequest(url, UrlHost(url),
                               RedirectHeaders(cur.req_headers), NoData))
            /\ redirects' = redirects + 1
            /\ UNCHANGED <<sent, outcome, pc>>
       ELSE /\ Finish(<<ProxyError(Exc("HTTPError", up.status), request.command)>>,
                      "Failed")
            /\ UNCHANGED <<upstream_log, redirects>>
    /\ UNCHANGED <<auth_token, request, authorized, req, backlog, active,
                   prev_outcome>>

\* response.read() returns the body, which is written to the client, or
\* raises and the except branch answers (lines 115-118); the status line and
\* headers were written by end_headers (line 112)
ReadResponse ==
    /\ pc = "Relaying"
    /\ LET up == upstream_answers[Len(upstream_answers)].resp IN
       Finish(Relay(up, request.command),
              IF up.readOk THEN "Relayed" ELSE "Failed")
    /\ UNCHANGED <<auth_token, request, authorized, req, upstream_log,
                   redirects, upstream_answers, backlog, active, prev_outcome>>

\* Close with the process ending when the request has failed with 502
Close_exit_on_failure ==
    /\ pc = "Responded"
    /\ pc' = IF outcome = "Failed" THEN "exited" ELSE "idle"
    /\ active' = active - 1
    /\ prev_outcome' = outcome
    /\ request' = NoRequest
    /\ authorized' = "none"
    /\ req' = NoReq
    /\ upstream_log' = <<>>
    /\ redirects' = 0
    /\ sent' = <<>>
    /\ upstream_answers' = <<>>
    /\ outcome' = "none"
    /\ UNCHANGED <<auth_token, backlog>>

\* the handler has returned: the server shuts the connection down and
\* discards the handler object (socketserver's shutdown_request, within
\* serve_forever, devtools_proxy.py:144), then waits for the next connection
Close ==
    /\ pc = "Responded"
    /\ pc' = "idle"
    /\ active' = active - 1
    /\ prev_outcome' = outcome
    /\ request' = NoRequest
    /\ authorized' = "none"
    /\ req' = NoReq
    /\ upstream_log' = <<>>
    /\ redirects' = 0
    /\ sent' = <<>>
    /\ upstream_answers' = <<>>
    /\ outcome' = "none"
    /\ UNCHANGED <<auth_token, backlog>>

Next ==
    \/ Connect
    \/ \E r \in Requests : Accept(r)
    \/ Handle
    \/ ReadBody
    \/ UpstreamRefused
    \/ \E up \in UpstreamResponses : UpstreamResponds(up)
    \/ ReadResponse
    \/ Close

Spec == Init /\ [][Next]_vars

\* One request for every path through the handler once the credential is
\* judged: a plain GET (denied when a secret is set, forwarded when none
\* is), a method with no do_<METHOD>, a body that arrives whole, a body cut
\* short by the client closing or by the client stalling, and a
\* Content-Length that is no number.
PathSample ==
    LET two == <<Hdr("Content-Length", <<50>>)>>
    IN  { Req("GET", P_json, <<HostHdr>>, <<>>, TRUE),
          Req("OPTIONS", P_json, <<HostHdr>>, <<>>, TRUE),
          Req("POST", P_json, <<HostHdr>> \o two, <<97, 98>>, FALSE),
          Req("PUT", P_json, <<HostHdr>> \o two, <<97>>, TRUE),
          Req("PUT", P_json, <<HostHdr>> \o two, <<97>>, FALSE),
          Req("POST", P_json, <<HostHdr, Hdr("Content-Length", <<122, 122>>)>>,
              <<>>, TRUE) }

\* the requests of the sample whose announced body arrives: the client sends
\* the bytes of its Content-Length, or closes its sending side
ArrivingRequests ==
    {r \in PathSample :
        LET cl == ParseInt(HeaderGet(r.headers, "Content-Length", <<48>>))
        IN  \/ r.eof
            \/ ~cl.ok
            \/ Len(r.body) >= cl.val}

\* one upstream response for every way urlopen and the relay can go
ResponseSample ==
    { Up(200, U_plain, <<97, 98>>, TRUE),
      Up(200, U_plain, <<97, 98>>, FALSE),
      Up(302, U_plain \o <<Hdr("Location", L_same)>>, <<>>, TRUE),
      Up(404, U_plain, <<110>>, TRUE) }

\* the steps of the proxy when every client sends the body it announced
FairNext ==
    \/ Connect
    \/ \E r \in ArrivingRequests : Accept(r)
    \/ Handle
    \/ ReadBody
    \/ UpstreamRefused
    \/ \E up \in ResponseSample : UpstreamResponds(up)
    \/ ReadResponse
    \/ Close

\* a step of the server or of the upstream; at most one kind is enabled in
\* a state, the one pc names
Progress ==
    \/ \E r \in ArrivingRequests : Accept(r)
    \/ Handle
    \/ ReadBody
    \/ UpstreamRefused
    \/ \E up \in ResponseSample : UpstreamResponds(up)
    \/ ReadResponse
    \/ Close

\* The handler and the server loop keep running (a blocking call returns
\* once its data is there), the client's body arrives, and the upstream
\* answers or fails every request and every read of its response.
FairSpec == Init /\ [][FairNext]_vars /\ WF_vars(Progress)

(***************************************************************************)
(* Properties.                                                             *)
(***************************************************************************)
\* the handler has taken its authorization decision for `request`
Handled == request # NoRequest /\ pc # "Handling"

\* the request/response cycle of `request` is complete
Done == pc = "Responded"

Supported == request.command \in SupportedMethods

SecretSet == ~TokenFalsy(auth_token)

\* the value authenticate() reads
AuthValue == HeaderGet(request.headers, "Authorization", <<>>)

\* the one response of a cycle that is a 401 with the challenge header
Is401Challenge ==
    /\ Len(sent) = 1
    /\ sent[1].code = 401
    /\ \E i \in 1..Len(sent[1].headers) :
          /\ sent[1].headers[i].name = "WWW-Authenticate"
          /\ sent[1].headers[i].value = Realm
    /\ sent[1].body.kind = "bytes"

\* proxy_request was entered for `request`
Forwarded == req.url = TargetUrl(request.path)

No401 == \A i \in 1..Len(sent) : sent[i].code # 401

\* C1: with a secret configured, a request that authenticate() denies (in
\* particular one with no Authorization header, or one whose value does not
\* start with "Basic ") is answered 401 with WWW-Authenticate: Basic
\* realm="Chrome DevTools" and no upstream request is issued for it; an
\* upstream request exists only for a request authenticate() allowed.
C1_DeniedGets401NoUpstream ==
    /\ (Handled /\ Supported /\ ~authenticate(request.headers, auth_token))
          => /\ SecretSet
             /\ authorized = "deny"
             /\ Done
             /\ Is401Challenge
             /\ upstream_log = <<>>
    /\ (Handled /\ Supported /\ SecretSet
            /\ ~StartsWith(AuthValue, BasicPrefix))
          => Is401Challenge /\ upstream_log = <<>>
    /\ upstream_log # <<>>
          => authorized = "allow" /\ authenticate(request.headers, auth_token)
    /\ pc \in {"ReadingBody", "Forwarding"} => authorized = "allow"

\* a denied request with a wrong password has been answered
C1_Witness ==
    /\ outcome = "Denied"
    /\ SecretSet
    /\ AuthValue = Basic(Cred(TokenUser, S_wrong))
    /\ Is401Challenge

\* C2: with a secret configured, "Basic " + base64(username ":" secret) is
\* authorized and forwarded for every user name ("token", the empty name,
\* any other name; user names hold no ':').
C2_PasswordOnlyRule ==
    \A u \in Usernames :
        (Handled /\ Supported /\ SecretSet
            /\ AuthValue = Basic(Cred(u, auth_token.s)))
          => authorized = "allow" /\ Forwarded /\ No401

\* a request of user "anyone" with the secret as password is being forwarded
C2_Witness ==
    /\ SecretSet
    /\ AuthValue = Basic(Cred(S_anyone, auth_token.s))
    /\ pc = "Forwarding"
    /\ Len(upstream_log) = 1

\* C3: with a secret configured, a well-formed Basic credential whose
\* password differs from the secret is denied with 401 for every user name,
\* "token" included.
C3_WrongPasswordDenied ==
    \A u \in Usernames, p \in Passwords :
        (Handled /\ Supported /\ SecretSet /\ p # auth_token.s
            /\ AuthValue = Basic(Cred(u, p)))
          => /\ authorized = "deny"
             /\ outcome = "Denied"
             /\ Is401Challenge
             /\ upstream_log = <<>>

\* "token:wrong" has been denied
C3_Witness ==
    /\ SecretSet
    /\ AuthValue = Basic(Cred(TokenUser, S_wrong))
    /\ outcome = "Denied"

\* C4: in open mode (secret unset or empty) every request of a supported
\* method is allowed whatever its Authorization header, and is forwarded
\* without a 401.
C4_OpenModeAllowsAll ==
    (Handled /\ Supported /\ (auth_token.isNone \/ auth_token.s = <<>>))
      => /\ authorized = "allow"
         /\ Forwarded
         /\ No401
         /\ outcome # "Denied"

\* with an empty secret, a request carrying a malformed Authorization value
\* is being forwarded
C4_Witness ==
    /\ auth_token = Token(<<>>)
    /\ AuthValue \in MalformedAuth
    /\ pc = "Forwarding"


\* the text after "Basic " in the Authorization value
Payload == Drop(AuthValue, Len(BasicPrefix))

\* base64 as RFC 4648 defines it: alphabet characters only, in groups of
\* four, with at most two pad characters, at the end
StrictBase64(s) ==
    /\ Len(s) % 4 = 0
    /\ \E k \in 0..2 :
          /\ k <= Len(s)
          /\ \A i \in 1..(Len(s) - k) :
                s[i] \in (65..90) \cup (97..122) \cup (48..57) \cup {43, 47}
          /\ \A i \in (Len(s) - k + 1)..Len(s) : s[i] = 61

\* C5: with a secret configured, an Authorization value whose payload after
\* "Basic " is not valid base64, or whose decoded text holds no ":", is
\* denied and the client gets 401.
C5_MalformedDenied ==
    (Handled /\ Supported /\ SecretSet /\ StartsWith(AuthValue, BasicPrefix)
        /\ \/ ~StrictBase64(Payload)
           \/ b64decode(Payload).ok /\ Find(b64decode(Payload).val, 58) = 0)
      => outcome = "Denied" /\ Is401Challenge

LowerNames(h) == {lower(h[i].name) : i \in 1..Len(h)}

\* the values of the headers of h named ln, ignoring case, in order
ValuesOf(h, ln) ==
    LET sel == SelectSeq(h, LAMBDA f : lower(f.name) = ln)
    IN  [i \in 1..Len(sel) |-> sel[i].value]

LastValue(h, ln) == ValuesOf(h, ln)[Len(ValuesOf(h, ln))]

LastAnswer == upstream_answers[Len(upstream_answers)]

Answered == upstream_answers # <<>>

\* upstream header j of response up is among the headers of client response r
Copied(up, j, r) ==
    \E i \in 1..Len(r.headers) : r.headers[i] = up.headers[j]

RelayedCopiesOthers ==
    (Done /\ outcome = "Relayed")
      => \A j \in 1..Len(LastAnswer.resp.headers) :
            lower(LastAnswer.resp.headers[j].name)
                  \notin {"connection", "transfer-encoding"}
              => Copied(LastAnswer.resp, j, sent[1])

\* C7 as stated: no response the proxy writes carries a Connection or
\* Transfer-Encoding header; a relayed response copies every other
\* upstream header.
C7_AsStated ==
    /\ \A i \in 1..Len(sent) :
          LowerNames(sent[i].headers) \cap {"connection", "transfer-encoding"} = {}
    /\ RelayedCopiesOthers

\* C7: the Connection and Transfer-Encoding headers of the upstream response
\* are never relayed: no response carries Transfer-Encoding, and a
\* Connection header occurs only on the listener's own error responses (502,
\* 501), once, as "Connection: close"; a relayed response copies every
\* other upstream header.
C7_UpstreamHopHeadersNotRelayed ==
    /\ \A i \in 1..Len(sent) :
          /\ "transfer-encoding" \notin LowerNames(sent[i].headers)
          /\ IF sent[i].code \in {501, 502}
             THEN ValuesOf(sent[i].headers, "connection") = <<CloseValue>>
             ELSE "connection" \notin LowerNames(sent[i].headers)
    /\ RelayedCopiesOthers

\* an upstream response carrying Connection and Transfer-Encoding has been
\* relayed
C7_Witness ==
    /\ Done
    /\ outcome = "Relayed"
    /\ {"connection", "transfer-encoding", "set-cookie"}
          \subseteq LowerNames(LastAnswer.resp.headers)

\* the response r is a 502 whose status line reads "Proxy error: ..."
Is502ProxyError(r) == r.code = 502 /\ r.reason.prefix = "Proxy error: "

HasProxyErrorBody(r) ==
    r.body.kind = "errorpage" /\ r.body.message.prefix = "Proxy error: "

\* C8 as stated: an authorized request of any supported method whose
\* upstream connection is refused gets 502 with a body containing
\* "Proxy error:".
C8_AsStated ==
    (Done /\ authorized = "allow" /\ Answered /\ LastAnswer.kind = "refused")
      => /\ Len(sent) = 1
         /\ sent[1].code = 502
         /\ HasProxyErrorBody(sent[1])

\* C8: an authorized request of any supported method whose upstream
\* connection is refused gets one response, a 502 whose status line reads
\* "Proxy error: <message>"; its body holds "Proxy error:" for GET, POST,
\* PUT and DELETE, and a HEAD request gets no body.
C8_RefusedGives502 ==
    (Done /\ authorized = "allow" /\ Answered /\ LastAnswer.kind = "refused")
      => /\ Len(sent) = 1
         /\ Is502ProxyError(sent[1])
         /\ sent[1].reason.exc.type = "URLError"
         /\ IF request.command = "HEAD"
            THEN sent[1].body.kind = "none"
            ELSE HasProxyErrorBody(sent[1])

\* a HEAD request whose upstream connection was refused has been answered
C8_Witness ==
    /\ Done
    /\ authorized = "allow"
    /\ request.command = "HEAD"
    /\ Answered
    /\ LastAnswer.kind = "refused"
    /\ sent[1].code = 502

\* C9 as stated: an upstream response with a 2xx or 3xx status (whose body
\* can be read) reaches the client with that status and its full body.
C9_AsStated ==
    \A k \in 1..Len(upstream_answers) :
        LET a == upstream_answers[k] IN
        (Done /\ authorized = "allow" /\ a.kind = "response"
            /\ a.resp.status >= 200 /\ a.resp.status < 400 /\ a.resp.readOk)
          => /\ sent[1].code = a.resp.status
             /\ sent[1].body = BytesBody(a.resp.body)

\* C9: when urlopen returns a response for an authorized request (a 2xx
\* status, possibly reached by following redirects) and its body is read
\* completely, the client gets one response with that status and that full
\* body; an upstream 3xx status is never relayed.
C9_SuccessRelayedVerbatim ==
    /\ (Done /\ authorized = "allow" /\ Answered
            /\ LastAnswer.kind = "response"
            /\ LastAnswer.resp.status >= 200 /\ LastAnswer.resp.status < 300
            /\ LastAnswer.resp.readOk)
          => /\ Len(sent) = 1
             /\ sent[1].code = LastAnswer.resp.status
             /\ sent[1].body = BytesBody(LastAnswer.resp.body)
    /\ \A k \in 1..Len(upstream_answers), i \in 1..Len(sent) :
          (upstream_answers[k].kind = "response"
              /\ upstream_answers[k].resp.status >= 300
              /\ upstream_answers[k].resp.status < 400)
            => sent[i].code # upstream_answers[k].resp.status

\* a 204 reached by following a redirect has been relayed
C9_Witness ==
    /\ Done
    /\ outcome = "Relayed"
    /\ Len(upstream_answers) = 2
    /\ upstream_answers[1].resp.status = 302
    /\ LastAnswer.resp.status = 204
    /\ sent[1].code = 204

\* C10 as stated: for an authorized request, an upstream status outside
\* 2xx/3xx is not passed through; the client gets 502 with a
\* "Proxy error: <message>" body.
C10_AsStated ==
    (Done /\ authorized = "allow" /\ Answered /\ LastAnswer.kind = "response"
        /\ (LastAnswer.resp.status < 200 \/ LastAnswer.resp.status >= 400))
      => /\ Len(sent) = 1
         /\ sent[1].code = 502
         /\ HasProxyErrorBody(sent[1])

\* C10: for an authorized request, an upstream status outside 2xx/3xx is
\* never passed through: the client gets one response, a 502 whose status
\* line reads "Proxy error: HTTP Error <status>"; the body holding that
\* message is sent unless the request method is HEAD.
C10_ErrorStatusBecomes502 ==
    (Done /\ authorized = "allow" /\ Answered /\ LastAnswer.kind = "response"
        /\ (LastAnswer.resp.status < 200 \/ LastAnswer.resp.status >= 400))
      => /\ Len(sent) = 1
         /\ Is502ProxyError(sent[1])
         /\ sent[1].reason.exc = Exc("HTTPError", LastAnswer.resp.status)
         /\ IF request.command = "HEAD"
            THEN sent[1].body.kind = "none"
            ELSE HasProxyErrorBody(sent[1])

\* a HEAD request answered 404 by the upstream has been answered 502
C10_Witness ==
    /\ Done
    /\ request.command = "HEAD"
    /\ Answered
    /\ LastAnswer.resp.status = 404
    /\ sent[1].code = 502

\* C11: the upstream request issued for a client request carries the method
\* of the client's request, for every supported method, with or without a
\* body.
C11_MethodPreserved ==
    (Supported /\ upstream_log # <<>>)
      => upstream_log[1].method = request.command

\* C12: the listener serves strictly sequentially.  At every moment at most
\* one connection is between accept and the end of its cycle, and while a
\* request is being served (authorization, upstream round trip, response
\* write) no waiting connection is accepted.
C12_Sequential ==
    /\ [](active \in {0, 1} /\ (active = 1 <=> pc # "idle"))
    /\ [][pc # "idle" => (active' <= active /\ backlog' >= backlog)]_vars

\* a connection waits in the backlog while the upstream round trip of the
\* accepted request is in progress
C12_Witness ==
    /\ pc = "Forwarding"
    /\ active = 1
    /\ backlog = 1

\* C13: every accepted request of a supported method ends in exactly one of
\* Denied (401), Relayed (the upstream status) and Failed (502), and the
\* client is sent exactly one response: never a second one after the first.
C13_ExactlyOneResponse ==
    /\ Len(sent) <= 1
    /\ (Done /\ Supported)
         => /\ outcome \in {"Denied", "Relayed", "Failed"}
            /\ Len(sent) = 1
            /\ outcome = "Denied" <=> sent[1].code = 401
            /\ outcome = "Failed" <=> sent[1].code = 502

\* C14: a request whose method is none of GET, POST, PUT, DELETE, HEAD is
\* answered 501 "Unsupported method" by the listener itself; authenticate()
\* and proxy_request() do not run for it and no upstream request is issued.
C14_UnsupportedNotImplemented ==
    (Handled /\ request.command \notin {"GET", "POST", "PUT", "DELETE", "HEAD"})
      => /\ Done
         /\ outcome = "NotImplemented"
         /\ Len(sent) = 1
         /\ sent[1].code = 501
         /\ sent[1].reason = Msg("Unsupported method", NoExc)
         /\ authorized = "none"
         /\ req = NoReq
         /\ upstream_log = <<>>
         /\ upstream_answers = <<>>

\* an OPTIONS request carrying the right credential has been answered 501
C14_Witness ==
    /\ Done
    /\ request.command = "OPTIONS"
    /\ SecretSet
    /\ AuthValue = GoodAuth
    /\ authenticate(request.headers, auth_token)
    /\ sent[1].code = 501

\* the Authorization header of `request` alone, as a header list
OnlyAuthorization ==
    IF HasHeader(request.headers, "Authorization")
    THEN <<Hdr("Authorization", AuthValue)>>
    ELSE <<>>

\* C15: the authorization decision is stateless.  For a fixed secret the
\* decision taken for a request is a function of its Authorization header
\* alone, whatever was served before: after a denied request the correct
\* credential is allowed, and after an allowed request a request without a
\* valid credential is denied.
C15_DecisionStateless ==
    (Handled /\ Supported)
      => /\ authorized \in {"allow", "deny"}
         /\ authorized = "allow" <=> authenticate(OnlyAuthorization, auth_token)
         /\ (SecretSet /\ AuthValue = Basic(Cred(TokenUser, auth_token.s)))
               => authorized = "allow"
         /\ (SecretSet /\ ~HasHeader(request.headers, "Authorization"))
               => authorized = "deny"

\* right after a denied request, a request with the correct credential has
\* been allowed
C15_Witness ==
    /\ Handled
    /\ SecretSet
    /\ prev_outcome = "Denied"
    /\ AuthValue = Basic(Cred(TokenUser, auth_token.s))
    /\ authorized = "allow"

\* '<target_host>:<target_port>', the configured upstream endpoint
TargetHostPort == target_host \o <<Colon>> \o IntToStr(target_port)

\* C16: every upstream request issued for a client request is addressed to
\* the configured target host and port: the first one has the URL
\* http://<target_host>:<target_port><path>, and the host and port of every
\* upstream URL are the configured ones whatever the client sends.
C16_AddressedToTarget ==
    \A k \in 1..Len(upstream_log) :
        /\ k = 1 => upstream_log[k].url = TargetUrl(request.path)
        /\ UrlHost(upstream_log[k].url) = TargetHostPort

\* int(self.headers.get('Content-Length', 0)) of `request`, when it is a number
DeclaredLength ==
    IF HasHeader(request.headers, "Content-Length")
    THEN ParseInt(HeaderGet(request.headers, "Content-Length", <<>>)).val
    ELSE 0

\* C17: for POST and PUT the handler reads exactly Content-Length bytes of
\* the client's body (none when the header is absent or not positive) and
\* the upstream request carries exactly those bytes; when the client closes
\* before sending that many, the bytes that arrived are attached.  For GET,
\* DELETE and HEAD nothing is read and the upstream request has no body.
C17_BodyForwarded ==
    /\ pc = "ReadingBody"
         => (request.command \in {"POST", "PUT"} /\ DeclaredLength > 0)
    /\ (Supported /\ upstream_log # <<>>)
         => IF request.command \in {"POST", "PUT"} /\ DeclaredLength > 0
            THEN /\ req.data = upstream_log[1].body
                 /\ IF Len(request.body) >= DeclaredLength
                    THEN upstream_log[1].body =
                             Data(SubSeq(request.body, 1, DeclaredLength))
                    ELSE /\ request.eof
                         /\ upstream_log[1].body = Data(request.body)
            ELSE /\ req.data = NoData
                 /\ upstream_log[1].body = NoData

\* a PUT announcing 2 bytes and sending 3 has been forwarded with the first 2
C17_Witness ==
    /\ pc = "Forwarding"
    /\ request.command = "PUT"
    /\ DeclaredLength = 2
    /\ Len(request.body) = 3
    /\ upstream_log[1].body = Data(<<97, 98>>)

\* C18: when relaying, the upstream response body has been read completely
\* before anything of the response (status line, headers or body) is written
\* to the client: while response.read() has not returned, nothing is sent.
C18_BodyReadBeforeWrite ==
    pc = "Relaying" => sent = <<>>

\* C19: for each client request at most one upstream request is issued: no
\* retry after a failure and no further upstream request of any kind.
C19_AtMostOneUpstreamRequest ==
    Len(upstream_log) <= 1

\* C20: the decoded credential is split at its first ':' only: the password
\* is everything after the first colon, colons included.  For every user
\* name u (which holds no colon) and password p, the credential u:p is
\* authorized exactly when p is the secret; with the secret "a:b" the
\* credential "u:a:b" is authorized and "u:x:a:b" is denied.
C20_SplitAtFirstColon ==
    (Handled /\ Supported /\ SecretSet)
      => /\ \A u \in Usernames, p \in Passwords :
              AuthValue = Basic(Cred(u, p))
                => (authorized = "allow" <=> p = auth_token.s)
         /\ (auth_token.s = S_ab
               /\ AuthValue = Basic(<<117, 58, 97, 58, 98>>))
              => authorized = "allow"
         /\ (auth_token.s = S_ab
               /\ AuthValue = Basic(<<117, 58, 120, 58, 97, 58, 98>>))
              => authorized = "deny"

\* with the secret "a:b", the credential "u:a:b" has been authorized
C20_Witness ==
    /\ Handled
    /\ auth_token = Token(S_ab)
    /\ AuthValue = Basic(<<117, 58, 97, 58, 98>>)
    /\ authorized = "allow"

\* with the secret "a:b", the credential "u:x:a:b" has been denied
C20_WitnessDenied ==
    /\ Done
    /\ auth_token = Token(S_ab)
    /\ AuthValue = Basic(<<117, 58, 120, 58, 97, 58, 98>>)
    /\ outcome = "Denied"

\* C21: there is no timeout and no cancellation.  While the upstream has not
\* answered a forwarded request, the request stays in Forwarding with nothing
\* sent to its client, and no other connection is accepted or answered:
\* every step that is not an answer of the upstream leaves the handler
\* blocked and the waiting connections in the backlog.
C21_HungUpstreamStalls ==
    /\ [](pc = "Forwarding" => (sent = <<>> /\ outcome = "none" /\ active = 1))
    /\ [][(pc = "Forwarding" /\ upstream_answers' = upstream_answers)
            => /\ pc' = "Forwarding"
               /\ request' = request
               /\ sent' = sent
               /\ outcome' = outcome
               /\ active' = active
               /\ backlog' >= backlog]_vars

\* the upstream has not answered the redirected request and a later client
\* is waiting to be accepted
C21_Witness ==
    /\ pc = "Forwarding"
    /\ Len(upstream_log) = 2
    /\ Len(upstream_answers) = 1
    /\ backlog = MaxBacklog
    /\ sent = <<>>

\* what the handler writes for `request`, as a function of the secret, the
\* request and the answers of the upstream only
ExpectedSent ==
    IF request.command \notin {"GET", "POST", "PUT", "DELETE", "HEAD"}
    THEN <<send_error(501, Msg("Unsupported method", NoExc), request.command)>>
    ELSE IF ~authenticate(request.headers, auth_token)
    THEN <<send_auth_required>>
    ELSE IF ~Answered
    THEN <<ProxyError(Exc("ValueError", 0), request.command)>>
    ELSE IF LastAnswer.kind = "refused"
    THEN <<ProxyError(Exc("URLError", 111), request.command)>>
    ELSE IF LastAnswer.resp.status >= 200 /\ LastAnswer.resp.status < 300
    THEN Relay(LastAnswer.resp, request.command)
    ELSE <<ProxyError(Exc("HTTPError", LastAnswer.resp.status), request.command)>>

\* C22: failures are request-scoped.  After a request has ended (in 401,
\* 502, 501 or a relayed response) the listener returns to accepting with
\* the state it started with and the same secret, and what the next request
\* is answered depends on that request, the secret and the upstream's
\* answers only, not on the outcome of the request before it.
C22_FailuresRequestScoped ==
    /\ [](pc = "idle"
            => /\ request = NoRequest
               /\ authorized = "none"
               /\ req = NoReq
               /\ upstream_log = <<>>
               /\ redirects = 0
               /\ sent = <<>>
               /\ upstream_answers = <<>>
               /\ outcome = "none"
               /\ active = 0)
    /\ [](Done => sent = ExpectedSent)
    /\ [](Done => ENABLED Close)
    /\ [][(pc = "Responded" /\ pc' # pc)
            => (pc' = "idle" /\ prev_outcome' = outcome)]_vars
    /\ [][auth_token' = auth_token]_vars

\* right after a request that failed with 502, a request has been relayed
C22_Witness ==
    /\ Done
    /\ prev_outcome = "Failed"
    /\ outcome = "Relayed"
    /\ sent[1].code = 200

\* C23: a 502 is sent only after an upstream request has been issued for the
\* request: no authorized request is answered 502 with no upstream request.
C23_502OnlyAfterUpstreamAttempt ==
    (authorized = "allow" /\ \E i \in 1..Len(sent) : sent[i].code = 502)
      => upstream_log # <<>>

\* C24: under fairness, when the upstream answers or fails every request it
\* is sent and the client's body arrives, every accepted request eventually
\* has its response, and once it has, a connection waiting in the backlog is
\* eventually accepted.
C24_Progress ==
    /\ (pc = "Handling") ~> Done
    /\ (Done /\ backlog > 0) ~> (pc = "Handling")

\* a request has been accepted after a cycle that went to the upstream and
\* was relayed
C24_Witness ==
    /\ pc = "Handling"
    /\ prev_outcome = "Relayed"
    /\ active = 1

====
